---------------------------- MODULE Spec2Model ----------------------------
(***************************************************************************)
(* Log Filter CLI tool (log_tool.py), both variants of the repository:     *)
(*   "loose"  = src/log_tool.py                                            *)
(*   "strict" = src/day 2 task/log_tool.py                                 *)
(* Text is modelled by TLA+ strings, one character per position.  The two  *)
(* variants are run on the same command line, each on its own copy of the  *)
(* same initial disk, so that they can be compared.                        *)
(***************************************************************************)
EXTENDS Integers, Sequences, FiniteSets, TLC

(* ------------------------------ bounds -------------------------------- *)

\* Number of chunks the content of logs.txt is assembled from.
MaxChunks == 2

(* --------------------------- program constants ------------------------ *)

LOG_FILE == "logs.txt"
DEFAULT_OUT == "filtered_logs.txt"
ALLOWED_LEVELS == {"INFO", "WARN", "ERROR"}

\* Python's None; an optional string is None or <<s>>.
None == <<>>
Some(s) == <<s>>

(* ----------------------------- str methods ---------------------------- *)

CharAt(s, i) == SubSeq(s, i, i)

LowerCase == "abcdefghijklmnopqrstuvwxyz"
UpperCase == "ABCDEFGHIJKLMNOPQRSTUVWXYZ"

\* The upper-case form of each lower-case letter.
ToUpper ==
    LET at(c) == CHOOSE k \in 1..Len(LowerCase) : CharAt(LowerCase, k) = c
    IN  [c \in {CharAt(LowerCase, k) : k \in 1..Len(LowerCase)} |->
            CharAt(UpperCase, at(c))]

\* str.upper() on one character.
UpperChar(c) == IF c \in DOMAIN ToUpper THEN ToUpper[c] ELSE c

RECURSIVE Upper(_)
\* str.upper()
Upper(s) ==
    IF Len(s) = 0 THEN ""
    ELSE UpperChar(CharAt(s, 1)) \o Upper(SubSeq(s, 2, Len(s)))

\* The characters str.strip() removes.
IsSpace(c) == c \in {" ", "\t", "\n", "\r"}

RECURSIVE LStrip(_)
LStrip(s) ==
    IF Len(s) > 0 /\ IsSpace(CharAt(s, 1)) THEN LStrip(SubSeq(s, 2, Len(s))) ELSE s

RECURSIVE RStrip(_)
RStrip(s) ==
    IF Len(s) > 0 /\ IsSpace(CharAt(s, Len(s))) THEN RStrip(SubSeq(s, 1, Len(s) - 1)) ELSE s

\* str.strip()
Strip(s) == RStrip(LStrip(s))

RECURSIVE Split(_, _)
\* str.split(sep) for a one-character separator: a tuple of strings.
Split(s, sep) ==
    IF \E i \in 1..Len(s) : CharAt(s, i) = sep
    THEN LET i == CHOOSE k \in 1..Len(s) :
                     /\ CharAt(s, k) = sep
                     /\ \A j \in 1..(k - 1) : CharAt(s, j) # sep
         IN  <<SubSeq(s, 1, i - 1)>> \o Split(SubSeq(s, i + 1, Len(s)), sep)
    ELSE <<s>>

RECURSIVE Join(_, _)
\* sep.join(parts)
Join(sep, parts) ==
    IF Len(parts) = 0 THEN ""
    ELSE IF Len(parts) = 1 THEN parts[1]
    ELSE parts[1] \o sep \o Join(sep, Tail(parts))

(* ------------------------------ functions ----------------------------- *)

\* parse_line with "fewer than 4" in place of "not 4": the first four parts
\* of a longer line are taken.
parse_line_AtLeastFour(line) ==
    IF Len(line) = 0 THEN None
    ELSE LET raw == Strip(line) IN
         IF Len(raw) = 0 THEN None
         ELSE LET split == Split(raw, "|")
                  parts == [k \in 1..Len(split) |-> Strip(split[k])]
              IN  IF Len(parts) < 4 THEN None ELSE SubSeq(parts, 1, 4)

\* parse_line of src/log_tool.py:
\* <<timestamp, level, service, message>> or None.
parse_line(line) ==
    IF Len(line) = 0 THEN None
    ELSE LET raw == Strip(line) IN
         IF Len(raw) = 0 THEN None
         ELSE LET split == Split(raw, "|")
                  parts == [k \in 1..Len(split) |-> Strip(split[k])]
              IN  IF Len(parts) # 4 THEN None ELSE parts

\* parse_line that does not trim the parts.
parse_line_strict_Untrimmed(line) ==
    LET s == Strip(line) IN
    IF Len(s) = 0 THEN None
    ELSE LET parts == Split(s, "|")
         IN  IF Len(parts) # 4 THEN None ELSE parts

\* parse_line of src/day 2 task/log_tool.py (no test of the raw line).
parse_line_strict(line) ==
    LET s == Strip(line) IN
    IF Len(s) = 0 THEN None
    ELSE LET split == Split(s, "|")
             parts == [k \in 1..Len(split) |-> Strip(split[k])]
         IN  IF Len(parts) # 4 THEN None ELSE parts

\* is_valid_level of src/log_tool.py (strips, then uppercases).
is_valid_level(level) == Upper(Strip(level)) \in ALLOWED_LEVELS

\* is_valid_level of src/day 2 task/log_tool.py (uppercases only).
is_valid_level_strict(level) == Upper(level) \in ALLOWED_LEVELS

\* matches_filters that accepts a record matching either filter.
matches_filters_EitherFilter(level, service, level_filter, service_filter) ==
    IF level_filter # None /\ service_filter # None
    THEN Upper(level) = level_filter[1] \/ service = service_filter[1]
    ELSE IF level_filter # None THEN Upper(level) = level_filter[1]
    ELSE IF service_filter # None THEN service = service_filter[1]
    ELSE TRUE

\* matches_filters that takes an absent service filter for one that
\* nothing matches.
matches_filters_ServiceRequired(level, service, level_filter, service_filter) ==
    IF level_filter # None /\ Upper(level) # level_filter[1] THEN FALSE
    ELSE IF service_filter = None \/ service # service_filter[1] THEN FALSE
    ELSE TRUE

\* matches_filters of src/log_tool.py.
matches_filters(level, service, level_filter, service_filter) ==
    IF level_filter # None /\ Upper(level) # level_filter[1] THEN FALSE
    ELSE IF service_filter # None /\ service # service_filter[1] THEN FALSE
    ELSE TRUE

\* matches_filters of src/day 2 task/log_tool.py.
matches_filters_strict(level, service, level_filter, service_filter) ==
    IF level_filter # None /\ Upper(level) # level_filter[1] THEN FALSE
    ELSE IF service_filter # None /\ service # service_filter[1] THEN FALSE
    ELSE TRUE

\* The record without the spaces around the separators.
FormatRecord_NoSpaces(timestamp, level_up, service, message) ==
    timestamp \o "|" \o level_up \o "|" \o service \o "|" \o message

\* The f-string appended to output_lines.
FormatRecord(timestamp, level_up, service, message) ==
    timestamp \o " | " \o level_up \o " | " \o service \o " | " \o message

(* ------------------------------- pathlib ------------------------------ *)

HasSlash(p) == \E i \in 1..Len(p) : CharAt(p, i) = "/"
LastSlash(p) == CHOOSE i \in 1..Len(p) :
                    /\ CharAt(p, i) = "/"
                    /\ \A j \in (i + 1)..Len(p) : CharAt(p, j) # "/"

\* Path.parent, as a string
Parent(p) == IF HasSlash(p) THEN SubSeq(p, 1, LastSlash(p) - 1) ELSE "."

\* Path.name
Name(p) == IF HasSlash(p) THEN SubSeq(p, LastSlash(p) + 1, Len(p)) ELSE p

(* ------------------------------ text files ---------------------------- *)

\* A byte that is not valid UTF-8, and the character errors="replace" puts
\* in its place (U+FFFD).
BAD_BYTE == "@"
REPLACEMENT == "?"

RECURSIVE DecodeReplace(_)
\* Decoding with errors="replace".
DecodeReplace(bytes) ==
    IF Len(bytes) = 0 THEN ""
    ELSE (IF CharAt(bytes, 1) = BAD_BYTE THEN REPLACEMENT ELSE CharAt(bytes, 1))
         \o DecodeReplace(SubSeq(bytes, 2, Len(bytes)))

Undecodable(bytes) == \E i \in 1..Len(bytes) : CharAt(bytes, i) = BAD_BYTE

RECURSIVE ReadLines(_)
\* The lines "for line in f" yields: each keeps its line break, and a last
\* line without one is yielded as it is.
ReadLines(text) ==
    IF Len(text) = 0 THEN <<>>
    ELSE IF \E i \in 1..Len(text) : CharAt(text, i) = "\n"
    THEN LET i == CHOOSE k \in 1..Len(text) :
                     /\ CharAt(text, k) = "\n"
                     /\ \A j \in 1..(k - 1) : CharAt(text, j) # "\n"
         IN  <<SubSeq(text, 1, i)>> \o ReadLines(SubSeq(text, i + 1, Len(text)))
    ELSE <<text>>

\* The text write_text receives.
OutputText(output_lines) ==
    Join("\n", output_lines) \o (IF Len(output_lines) > 0 THEN "\n" ELSE "")

(* --------------------------- inputs of a run -------------------------- *)

Variants == {"loose", "strict"}

\* Pieces the content of logs.txt is assembled from.  The piece without a
\* line break runs into the piece that follows it (and then makes a line of
\* more than four fields), or ends the file.
Chunks == { "\n",
            "a|b|c\n",
            "t | info | auth | m\n",
            " v|Warn |Auth|",
            "t|debug|auth|m\n",
            "u|error|auth|@\n" }

RECURSIVE Texts(_)
Texts(n) ==
    IF n = 0 THEN {""}
    ELSE Texts(n - 1) \cup {t \o c : t \in Texts(n - 1), c \in Chunks}

SUB_OUT == "sub/out.txt"
STALE == "old\n"

LevelArgs == {None, Some(""), Some("warn"), Some("debug")}
ServiceArgs == {None, Some(""), Some("auth")}
OutArgs == {DEFAULT_OUT, LOG_FILE, SUB_OUT}

\* A disk: the content of each file that exists, and the directories.
NoFiles == [p \in {} |-> ""]
File(p, data) == [q \in {p} |-> data]
Write(files, p, data) ==
    [q \in DOMAIN files \cup {p} |-> IF q = p THEN data ELSE files[q]]

\* What is on the disk besides logs.txt: nothing, or the output file of an
\* earlier run, or the directory the output path names.
OutDisks(out) ==
    { [files |-> NoFiles, dirs |-> {"."}] }
    \cup (IF out = LOG_FILE THEN {}
          ELSE { [files |-> File(out, STALE), dirs |-> {".", Parent(out)}],
                 [files |-> NoFiles, dirs |-> {".", Parent(out)}] })

\* The disks a run with output path `out` may start on: logs.txt is
\* missing, or holds one of the texts.
InitialDisks(out) ==
    OutDisks(out) \cup
    { [d EXCEPT !.files = Write(d.files, LOG_FILE, t)] :
          d \in OutDisks(out), t \in Texts(MaxChunks) }

(* -------------------------------- state ------------------------------- *)

VARIABLES
    args,                 \* argparse's namespace: level, service, out
    disk0,                \* the disk when the run starts
    pc,                   \* where each variant's main() is
    level_filter, service_filter, out_path,
    fin,                  \* the input: unopened, open or closed; its lines
                          \* and how many of them were read
    total_valid_scanned, lines_written, output_lines,
    disk,                 \* each variant's disk
    stdout                \* the lines each variant printed

vars == <<args, disk0, pc, level_filter, service_filter, out_path, fin,
          total_valid_scanned, lines_written, output_lines, disk, stdout>>

Init ==
    /\ args \in [level : LevelArgs, service : ServiceArgs, out : OutArgs]
    /\ disk0 \in InitialDisks(args.out)
    /\ pc = [v \in Variants |-> "start"]
    /\ level_filter = [v \in Variants |-> None]
    /\ service_filter = [v \in Variants |-> None]
    /\ out_path = [v \in Variants |-> ""]
    /\ fin = [v \in Variants |-> [state |-> "unopened", lines |-> <<>>, pos |-> 0]]
    /\ total_valid_scanned = [v \in Variants |-> 0]
    /\ lines_written = [v \in Variants |-> 0]
    /\ output_lines = [v \in Variants |-> <<>>]
    /\ disk = [v \in Variants |-> disk0]
    /\ stdout = [v \in Variants |-> <<>>]

(* ------------------------------- main() ------------------------------- *)

\* The two runs share nothing and each is sequential: the loose variant's
\* run is taken first, then the strict variant's.
Turn(v) == v = "loose" \/ pc["loose"] \in {"done", "crashed"}

\* "x if x else None" on an optional string: None and "" are both falsy.
Truthy(opt) == opt # None /\ opt[1] # ""

\* The three filter and path assignments at the top of main().
ParseArgs(v) ==
    /\ Turn(v)
    /\ pc[v] = "start"
    /\ level_filter' = [level_filter EXCEPT ![v] =
           IF Truthy(args.level) THEN Some(Upper(args.level[1])) ELSE None]
    /\ service_filter' = [service_filter EXCEPT ![v] =
           IF Truthy(args.service) THEN args.service ELSE None]
    /\ out_path' = [out_path EXCEPT ![v] = args.out]
    /\ pc' = [pc EXCEPT ![v] = IF v = "strict" THEN "check_level" ELSE "check_exists"]
    /\ UNCHANGED <<args, disk0, fin, total_valid_scanned, lines_written,
                   output_lines, disk, stdout>>

\* The strict variant without its guard on --level.
CheckLevel_NoGuard(v) ==
    /\ Turn(v)
    /\ pc[v] = "check_level"
    /\ v = "strict"
    /\ pc' = [pc EXCEPT ![v] = "check_exists"]
    /\ UNCHANGED <<args, disk0, level_filter, service_filter, out_path, fin,
                   total_valid_scanned, lines_written, output_lines, disk, stdout>>

\* The guard on --level, which only the strict variant has.
CheckLevel(v) ==
    /\ Turn(v)
    /\ pc[v] = "check_level"
    /\ v = "strict"
    /\ IF level_filter[v] # None /\ level_filter[v][1] \notin ALLOWED_LEVELS
       THEN /\ stdout' = [stdout EXCEPT ![v] = Append(@,
                   "ERROR: --level must be one of INFO, WARN, ERROR (got: "
                   \o args.level[1] \o ")")]
            /\ pc' = [pc EXCEPT ![v] = "done"]
       ELSE /\ pc' = [pc EXCEPT ![v] = "check_exists"]
            /\ UNCHANGED stdout
    /\ UNCHANGED <<args, disk0, level_filter, service_filter, out_path, fin,
                   total_valid_scanned, lines_written, output_lines, disk>>

\* What a missing logs.txt makes each variant print.
MissingFileReport(v, out) ==
    IF v = "loose"
    THEN <<"Valid lines scanned: 0", "Lines written: 0", "Output file: " \o out>>
    ELSE <<"ERROR: Cannot find " \o LOG_FILE
           \o ". Put logs.txt in the same folder as this file.">>

\* The text layer of the open input: the loose variant replaces what it
\* cannot decode, the strict variant keeps the bytes and fails on reading.
OpenInput(v, bytes) ==
    [state |-> "open",
     lines |-> ReadLines(IF v = "loose" THEN DecodeReplace(bytes) ELSE bytes),
     pos |-> 0]

\* LOG_FILE.exists(), then the counters and the opening of the input.
CheckExists(v) ==
    /\ Turn(v)
    /\ pc[v] = "check_exists"
    /\ IF LOG_FILE \notin DOMAIN disk[v].files
       THEN /\ stdout' = [stdout EXCEPT ![v] = @ \o MissingFileReport(v, out_path[v])]
            /\ pc' = [pc EXCEPT ![v] = "done"]
            /\ UNCHANGED <<fin, total_valid_scanned, lines_written, output_lines>>
       ELSE /\ total_valid_scanned' = [total_valid_scanned EXCEPT ![v] = 0]
            /\ lines_written' = [lines_written EXCEPT ![v] = 0]
            /\ output_lines' = [output_lines EXCEPT ![v] = <<>>]
            /\ fin' = [fin EXCEPT ![v] = OpenInput(v, disk[v].files[LOG_FILE])]
            /\ pc' = [pc EXCEPT ![v] = "scan"]
            /\ UNCHANGED stdout
    /\ UNCHANGED <<args, disk0, level_filter, service_filter, out_path, disk>>

\* Each variant calls the functions of its own file.
ParseLineOf(v, line) ==
    IF v = "loose" THEN parse_line(line) ELSE parse_line_strict(line)

MatchesFiltersOf(v, level, service, lf, sf) ==
    IF v = "loose" THEN matches_filters(level, service, lf, sf)
    ELSE matches_filters_strict(level, service, lf, sf)

\* One iteration of the loop over the lines of the input.
ScanLine(v) ==
    /\ Turn(v)
    /\ pc[v] = "scan"
    /\ fin[v].pos < Len(fin[v].lines)
    /\ LET line == fin[v].lines[fin[v].pos + 1]
           parsed == ParseLineOf(v, line)
           level_up == Upper(parsed[2])
       IN  /\ ~Undecodable(line)
           /\ fin' = [fin EXCEPT ![v].pos = @ + 1]
           /\ IF parsed = None
              THEN UNCHANGED <<total_valid_scanned, lines_written, output_lines>>
              ELSE IF level_up \notin ALLOWED_LEVELS
              THEN UNCHANGED <<total_valid_scanned, lines_written, output_lines>>
              ELSE /\ total_valid_scanned' = [total_valid_scanned EXCEPT ![v] = @ + 1]
                   /\ IF MatchesFiltersOf(v, level_up, parsed[3],
                                          level_filter[v], service_filter[v])
                      THEN /\ output_lines' = [output_lines EXCEPT ![v] = Append(@,
                                  FormatRecord(parsed[1], level_up, parsed[3], parsed[4]))]
                           /\ lines_written' = [lines_written EXCEPT ![v] = @ + 1]
                      ELSE UNCHANGED <<lines_written, output_lines>>
    /\ UNCHANGED <<args, disk0, pc, level_filter, service_filter, out_path,
                   disk, stdout>>

\* UnicodeDecodeError of the strict variant.  The text layer decodes a
\* block of the file at a time, so the error is raised on the read of the
\* undecodable line or on an earlier read of the same block.
DecodeError(v) ==
    /\ Turn(v)
    /\ pc[v] = "scan"
    /\ \E k \in (fin[v].pos + 1)..Len(fin[v].lines) : Undecodable(fin[v].lines[k])
    /\ fin' = [fin EXCEPT ![v].state = "closed"]
    /\ pc' = [pc EXCEPT ![v] = "crashed"]
    /\ UNCHANGED <<args, disk0, level_filter, service_filter, out_path,
                   total_valid_scanned, lines_written, output_lines, disk, stdout>>

\* Path.mkdir(parents=True, exist_ok=True) on the parent of the output.
Mkdir(dirs, d) == dirs \cup {d}

\* The output written to the input path.
OutputTarget_Input(v) == LOG_FILE

\* The path write_text is called on.
OutputTarget(v) == out_path[v]

\* End of the loop: the input is closed, (loose variant) the parent
\* directory is made, then write_text replaces the content of the output
\* file.  The strict variant fails with FileNotFoundError when the parent
\* directory is missing.
WriteOutput(v) ==
    /\ Turn(v)
    /\ pc[v] = "scan"
    /\ fin[v].pos = Len(fin[v].lines)
    /\ fin' = [fin EXCEPT ![v].state = "closed"]
    /\ LET dirs == IF v = "loose"
                   THEN Mkdir(disk[v].dirs, Parent(out_path[v]))
                   ELSE disk[v].dirs
       IN  IF Parent(OutputTarget(v)) \in dirs
           THEN /\ disk' = [disk EXCEPT ![v] =
                       [files |-> Write(disk[v].files, OutputTarget(v),
                                        OutputText(output_lines[v])),
                        dirs |-> dirs]]
                /\ pc' = [pc EXCEPT ![v] = "print"]
           ELSE /\ pc' = [pc EXCEPT ![v] = "crashed"]
                /\ UNCHANGED disk
    /\ UNCHANGED <<args, disk0, level_filter, service_filter, out_path,
                   total_valid_scanned, lines_written, output_lines, stdout>>

\* The last line of the summary names the path (loose) or its name (strict).
PrintedPath(v, out) == IF v = "loose" THEN out ELSE Name(out)

\* The three print() calls that end main().
PrintSummary(v) ==
    /\ Turn(v)
    /\ pc[v] = "print"
    /\ stdout' = [stdout EXCEPT ![v] = @ \o
           << "Valid lines scanned: " \o ToString(total_valid_scanned[v]),
              "Lines written: " \o ToString(lines_written[v]),
              "Output file: " \o PrintedPath(v, out_path[v]) >>]
    /\ pc' = [pc EXCEPT ![v] = "done"]
    /\ UNCHANGED <<args, disk0, level_filter, service_filter, out_path, fin,
                   total_valid_scanned, lines_written, output_lines, disk>>

Next ==
    \E v \in Variants :
        \/ ParseArgs(v)
        \/ CheckLevel(v)
        \/ CheckExists(v)
        \/ ScanLine(v)
        \/ DecodeError(v)
        \/ WriteOutput(v)
        \/ PrintSummary(v)

Spec == Init /\ [][Next]_vars

(* ======================================================================= *)
(* Properties                                                              *)
(* ======================================================================= *)

\* The lines a variant's loop has processed so far, in file order.
Scanned(v) == SubSeq(fin[v].lines, 1, fin[v].pos)

\* The positions of the field separator in a line.
Bars(s) == {i \in 1..Len(s) : CharAt(s, i) = "|"}

\* A line of exactly four '|'-separated segments, not blank.
WellFormed(line) == Len(Strip(line)) > 0 /\ Cardinality(Bars(line)) = 3

\* The k-th segment (k in 1..4) of a well-formed line, trimmed.
FieldOf(line, k) ==
    LET bars == Bars(line)
        bar(n) == CHOOSE i \in bars : Cardinality({j \in bars : j < i}) = n - 1
        from == IF k = 1 THEN 1 ELSE bar(k - 1) + 1
        to == IF k = 4 THEN Len(line) ELSE bar(k) - 1
    IN  Strip(SubSeq(line, from, to))

\* A valid record: well-formed, with a recognized level.
ValidRecord(line) ==
    WellFormed(line) /\ Upper(FieldOf(line, 2)) \in ALLOWED_LEVELS

\* The filter predicate of the specification.
FilterPredicate(level, service, lf, sf) ==
    /\ (lf = None \/ level = lf[1])
    /\ (sf = None \/ service = sf[1])

\* A valid record that the filters lf, sf keep.
KeptRecord(line, lf, sf) ==
    /\ ValidRecord(line)
    /\ FilterPredicate(Upper(FieldOf(line, 2)), FieldOf(line, 3), lf, sf)

\* The output form of a valid record.
Rendered(line) ==
    Join(" | ", <<FieldOf(line, 1), Upper(FieldOf(line, 2)),
                  FieldOf(line, 3), FieldOf(line, 4)>>)

RECURSIVE ExpectedBuffer(_, _, _)
\* The kept records of a sequence of lines, rendered, in the order of the lines.
ExpectedBuffer(lines, lf, sf) ==
    IF Len(lines) = 0 THEN <<>>
    ELSE LET line == lines[Len(lines)]
             before == ExpectedBuffer(SubSeq(lines, 1, Len(lines) - 1), lf, sf)
         IN  IF KeptRecord(line, lf, sf) THEN Append(before, Rendered(line))
             ELSE before

\* The valid records among the scanned lines, by position, with the
\* uppercased level and the service of each.
ValidScanned(v) ==
    LET valid == {i \in 1..fin[v].pos : ValidRecord(fin[v].lines[i])}
    IN  [i \in valid |-> [level |-> Upper(FieldOf(fin[v].lines[i], 2)),
                          service |-> FieldOf(fin[v].lines[i], 3),
                          rendered |-> Rendered(fin[v].lines[i])]]

\* The records of recs that a variant's matches_filters keeps under lf, sf.
KeptBy(v, recs, lf, sf) ==
    {i \in DOMAIN recs :
        MatchesFiltersOf(v, recs[i].level, recs[i].service, lf, sf)}

\* Filters to try the functions on, besides those of the run.
LevelFilters == {None, Some("INFO"), Some("WARN"), Some("ERROR"), Some("DEBUG")}
ServiceFilters == {None, Some("auth"), Some("Auth"), Some("")}

Terminated(v) == pc[v] \in {"done", "crashed"}

(* ---------------------------------- C1 --------------------------------- *)

C1_Counted(v) ==
    total_valid_scanned[v] =
        Cardinality({i \in 1..fin[v].pos : ValidRecord(fin[v].lines[i])})

\* A step that reads a line that is not a valid record changes neither
\* counter nor the buffer.
C1_Skip(v) ==
    (fin'[v].pos = fin[v].pos + 1 /\ ~ValidRecord(fin[v].lines[fin'[v].pos]))
    => /\ total_valid_scanned'[v] = total_valid_scanned[v]
       /\ lines_written'[v] = lines_written[v]
       /\ output_lines'[v] = output_lines[v]

\* C1: in every state of the scan of either variant, total_valid_scanned is
\* the number of lines processed so far that have exactly four segments and
\* a level that is INFO, WARN or ERROR once trimmed and uppercased; a blank
\* line, a line of fewer or more than four segments and a line with another
\* level leave total_valid_scanned, lines_written and the buffer unchanged.
C1_ValidLinesCounted ==
    /\ [](\A v \in Variants : C1_Counted(v))
    /\ [][\A v \in Variants : C1_Skip(v)]_vars

\* Both variants have scanned a blank line and a valid record, or a line of
\* the wrong number of segments, or one with an unknown level.
C1_Witness ==
    \A v \in Variants :
        /\ pc[v] = "done"
        /\ fin[v].pos = 2
        /\ total_valid_scanned[v] = 1
        /\ \E i \in 1..2 : ~ValidRecord(fin[v].lines[i])

(* ---------------------------------- C2 --------------------------------- *)

\* C2: matches_filters, given an uppercased level, a service and two
\* optional filters, is true exactly when (the level filter is absent or
\* equals the level) and (the service filter is absent or equals the
\* service, case-sensitively).  Checked on every valid record the scan has
\* read, with the filters of the run and with the filters of LevelFilters
\* and ServiceFilters.
C2_MatchesFilters ==
    \A v \in Variants :
        LET recs == ValidScanned(v) IN
        \A i \in DOMAIN recs :
        \A lf \in LevelFilters \cup {level_filter[v]} :
        \A sf \in ServiceFilters \cup {service_filter[v]} :
            MatchesFiltersOf(v, recs[i].level, recs[i].service, lf, sf)
                <=> FilterPredicate(recs[i].level, recs[i].service, lf, sf)

\* Both filters are present and a record that matches the level filter only
\* was read and not kept.
C2_Witness ==
    \E v \in Variants :
        /\ pc[v] = "done"
        /\ level_filter[v] = Some("WARN")
        /\ service_filter[v] = Some("auth")
        /\ \E i \in 1..fin[v].pos :
               /\ ValidRecord(fin[v].lines[i])
               /\ Upper(FieldOf(fin[v].lines[i], 2)) = "WARN"
               /\ FieldOf(fin[v].lines[i], 3) = "Auth"
        /\ output_lines[v] = <<>>

(* ---------------------------------- C3 --------------------------------- *)

\* C3: the buffer is the sequence, in file order, of the valid records read
\* so far that satisfy the filter predicate, each rendered as
\* "<timestamp> | <LEVEL> | <service> | <message>" from the trimmed fields
\* with the level uppercased; lines_written is the length of the buffer.
C3_BufferIsKeptRecords ==
    \A v \in Variants :
        /\ lines_written[v] = Len(output_lines[v])
        /\ output_lines[v] =
               ExpectedBuffer(Scanned(v), level_filter[v], service_filter[v])

\* A finished scan that kept two records, a lower-case INFO line first.
C3_Witness ==
    \E v \in Variants :
        /\ pc[v] = "done"
        /\ output_lines[v] = <<"t | INFO | auth | m", "v | WARN | Auth | ">>

(* ---------------------------------- C4 --------------------------------- *)

\* C4: lines_written never exceeds total_valid_scanned; a run without
\* filters ends with lines_written = total_valid_scanned; and the records
\* kept under any filter pair are among those kept with either filter
\* removed, the buffer of the run included.
C4_FilterMonotonic ==
    \A v \in Variants :
        LET recs == ValidScanned(v) IN
        /\ lines_written[v] <= total_valid_scanned[v]
        /\ (level_filter[v] = None /\ service_filter[v] = None
                /\ pc[v] \in {"scan", "print", "done"})
           => lines_written[v] = total_valid_scanned[v]
        /\ \A lf \in LevelFilters \cup {level_filter[v]} :
           \A sf \in ServiceFilters \cup {service_filter[v]} :
               /\ KeptBy(v, recs, lf, sf) \subseteq KeptBy(v, recs, None, sf)
               /\ KeptBy(v, recs, lf, sf) \subseteq KeptBy(v, recs, lf, None)
        /\ lines_written[v] =
               Cardinality(KeptBy(v, recs, level_filter[v], service_filter[v]))
        /\ {output_lines[v][k] : k \in 1..Len(output_lines[v])}
               \subseteq {recs[i].rendered :
                              i \in KeptBy(v, recs, None, service_filter[v])
                                    \cap KeptBy(v, recs, level_filter[v], None)}

\* A finished run whose service filter dropped one of two valid records.
C4_Witness ==
    \E v \in Variants :
        /\ pc[v] = "done"
        /\ service_filter[v] # None
        /\ total_valid_scanned[v] = 2
        /\ lines_written[v] = 1

(* ---------------------------------- C5 --------------------------------- *)

\* The three summary lines, the last with the output path or its name.
IsSummary(out, n_valid, n_written, path) ==
    /\ Len(out) = 3
    /\ out[1] = "Valid lines scanned: " \o ToString(n_valid)
    /\ out[2] = "Lines written: " \o ToString(n_written)
    /\ out[3] \in {"Output file: " \o path, "Output file: " \o Name(path)}

\* C5: every run that has terminated, on whatever path, has printed exactly
\* the three summary lines, in order, with its counters and its output path.
C5_AlwaysThreeLines ==
    \A v \in Variants :
        Terminated(v) =>
            IsSummary(stdout[v], total_valid_scanned[v], lines_written[v], args.out)

(* ---------------------------------- C6 --------------------------------- *)

\* C6: when logs.txt does not exist the run ends normally, having printed
\* the summary with both counts 0 and the output path, without opening the
\* input and with the disk as it was.
C6_MissingInputSummary ==
    \A v \in Variants :
        (LOG_FILE \notin DOMAIN disk0.files /\ Terminated(v)) =>
            /\ pc[v] = "done"
            /\ IsSummary(stdout[v], 0, 0, args.out)
            /\ fin[v].state = "unopened"
            /\ disk[v] = disk0

(* ---------------------------------- C7 --------------------------------- *)

\* The number of valid records among all the lines of the open input.
AllValid(v) ==
    Cardinality({i \in 1..Len(fin[v].lines) : ValidRecord(fin[v].lines[i])})

\* What an unrecognized --level value makes the two variants do; the loose
\* variant's part is stated for the runs that satisfy `scans`.
C7_Outcome(scans) ==
    /\ \A v \in Variants : output_lines[v] = <<>> /\ lines_written[v] = 0
    /\ pc["strict"] \in {"start", "check_level", "done"}
    /\ fin["strict"].state = "unopened"
    /\ disk["strict"] = disk0
    /\ pc["strict"] = "done" =>
           stdout["strict"] =
               <<"ERROR: --level must be one of INFO, WARN, ERROR (got: "
                 \o args.level[1] \o ")">>
    /\ (pc["loose"] = "done" /\ scans) =>
           /\ fin["loose"].state = "closed"
           /\ total_valid_scanned["loose"] = AllValid("loose")
           /\ args.out \in DOMAIN disk["loose"].files
           /\ disk["loose"].files[args.out] = ""

\* C7 as stated: for every --level value that does not uppercase to INFO,
\* WARN or ERROR no record is written, the strict variant reports the value
\* and ends without touching the input or the disk, and the loose variant
\* scans, counts every valid line and ends with an empty output file.
C7_UnrecognizedLevel ==
    (args.level # None /\ Upper(args.level[1]) \notin ALLOWED_LEVELS)
        => C7_Outcome(TRUE)

\* C7 amended: the same for a non-empty --level value, the loose variant's
\* part for the runs in which logs.txt exists.
C7_UnrecognizedLevelAmended ==
    (Truthy(args.level) /\ Upper(args.level[1]) \notin ALLOWED_LEVELS)
        => C7_Outcome(LOG_FILE \in DOMAIN disk0.files)

\* Both variants have ended a run with --level debug on a file with a valid
\* record: the loose one scanned it, the strict one did not.
C7_Witness ==
    /\ args.level = Some("debug")
    /\ \A v \in Variants : pc[v] = "done"
    /\ total_valid_scanned["loose"] > 0
    /\ STALE \notin {disk["loose"].files[p] : p \in DOMAIN disk["loose"].files}
    /\ STALE \in {disk0.files[p] : p \in DOMAIN disk0.files}

(* ---------------------------------- C8 --------------------------------- *)

\* The scan has read every line and closed the input.
ScanCompleted(v) ==
    fin[v].state = "closed" /\ fin[v].pos = Len(fin[v].lines)

RECURSIVE EachTerminated(_)
\* The records, each followed by one line break.
EachTerminated(lines) ==
    IF Len(lines) = 0 THEN ""
    ELSE lines[1] \o "\n" \o EachTerminated(Tail(lines))

LineBreaks(text) == {i \in 1..Len(text) : CharAt(text, i) = "\n"}

\* No line of the text is empty.
NoBlankLine(text) ==
    /\ 1 \notin LineBreaks(text)
    /\ \A i \in LineBreaks(text) : i + 1 \notin LineBreaks(text)

\* C8: once the scan has completed the output file exists and holds the
\* records of the buffer, each ended by one line break (lines_written line
\* breaks, no blank line, zero bytes for an empty buffer), whatever it held
\* before; until then the disk is as it was.
C8_OutputFileWritten ==
    \A v \in Variants :
        IF ScanCompleted(v)
        THEN /\ args.out \in DOMAIN disk[v].files
             /\ LET text == disk[v].files[args.out] IN
                /\ text = EachTerminated(output_lines[v])
                /\ Cardinality(LineBreaks(text)) = lines_written[v]
                /\ NoBlankLine(text)
                /\ (output_lines[v] = <<>>) => Len(text) = 0
        ELSE disk[v] = disk0

(* ---------------------------------- C9 --------------------------------- *)

\* The common case: logs.txt exists and can be decoded, the level filter is
\* absent or recognized, the parent directory of the output path exists.
CommonCase ==
    /\ LOG_FILE \in DOMAIN disk0.files
    /\ ~Undecodable(disk0.files[LOG_FILE])
    /\ (args.level = None \/ Upper(args.level[1]) \in ALLOWED_LEVELS)
    /\ Parent(args.out) \in disk0.dirs

\* C9: in the common case neither variant fails, and when both have ended
\* they have the same total_valid_scanned, the same lines_written, the same
\* content of the output file and the same first two printed lines.
C9_VariantsEquivalent ==
    CommonCase =>
        /\ \A v \in Variants : pc[v] # "crashed"
        /\ (\A v \in Variants : pc[v] = "done") =>
              /\ total_valid_scanned["loose"] = total_valid_scanned["strict"]
              /\ lines_written["loose"] = lines_written["strict"]
              /\ \A v \in Variants : args.out \in DOMAIN disk[v].files
              /\ disk["loose"].files[args.out] = disk["strict"].files[args.out]
              /\ SubSeq(stdout["loose"], 1, 2) = SubSeq(stdout["strict"], 1, 2)

\* Both variants have ended a run of the common case with a level filter,
\* having kept a record and dropped another.
C9_Witness ==
    /\ CommonCase
    /\ args.level = Some("warn")
    /\ \A v \in Variants :
           /\ pc[v] = "done"
           /\ total_valid_scanned[v] = 2
           /\ lines_written[v] = 1

(* --------------------------------- C10 --------------------------------- *)

\* logs.txt is on a variant's disk as it was when the run started.
InputUntouched(v) ==
    /\ (LOG_FILE \in DOMAIN disk[v].files) <=> (LOG_FILE \in DOMAIN disk0.files)
    /\ LOG_FILE \in DOMAIN disk0.files =>
           disk[v].files[LOG_FILE] = disk0.files[LOG_FILE]

=============================================================================
